---- MODULE Spec2Model ----
(***************************************************************************)
(* Subscription key lifecycle of the Onyx Hub API server (src/server.js)   *)
(* and of its admin console (src/unnamed/part_000).                        *)
(*                                                                         *)
(* Time is a natural number (one unit = one day, the unit of durationDays);*)
(* a Date is the clock value at which it was taken, NoDate is null.        *)
(* The two programs keep two collections: server.js the Subscription       *)
(* collection (subs), the console the Key collection (keys).               *)
(***************************************************************************)
EXTENDS Integers, Sequences, FiniteSets, TLC

VARIABLES now, subs, nextId, hist, last, keys, nextKeyId, conn, sweeps, timer

vars == <<now, subs, nextId, hist, last, keys, nextKeyId, conn, sweeps, timer>>

\* ------------------------------------------------------------ bounds
\* The clock runs from 0 to MaxNow.
MaxNow == 2
\* At most MaxDocs documents are ever inserted into one collection.
MaxDocs == 2
\* At most MaxSweeps scheduled ticks are in flight at once.
MaxSweeps == 2

\* ------------------------------------------------------------ values
Keys == {"K1", "K2"}
\* expiresAt: null (server.js:170, part_000:144)
NoDate == -1
Dates == 0..(MaxNow + 1)
\* req.body.durationDays: absent (0 stands for undefined as well: both falsy)
Durations == {-1, 0, 1}
\* req.body.userId: 0 is falsy, like a missing userId
UserIds == {0, 7}
Slots == {1, 2}

NoDoc == [id |-> 0, key |-> "", createdAt |-> NoDate, expiresAt |-> NoDate,
          isActive |-> FALSE, isFrozen |-> FALSE, frozenDays |-> 0,
          lastChecked |-> NoDate]

\* new Subscription({...}): the schema's defaults fill what the handler omits.
NewSubscription(id, k, e, t) ==
    [id |-> id, key |-> k, createdAt |-> t, expiresAt |-> e,
     isActive |-> TRUE, isFrozen |-> FALSE, frozenDays |-> 0,
     lastChecked |-> t]

SchemaPaths == {"key", "createdAt", "expiresAt", "isActive", "isFrozen",
                "frozenDays", "lastChecked"}

\* ------------------------------------------------------------ the store
\* Model.findOne(filter): the matching document, or null.
FindOne(matches) == IF matches = {} THEN NoDoc ELSE CHOOSE d \in matches : TRUE

ById(store, id) == FindOne({d \in store : d.id = id})

\* Mutant: the collection has no unique index.
DuplicateKey_NoIndex(store, id, k) == FALSE

\* The unique index on key: E11000 when another document holds the key.
DuplicateKey(store, id, k) == \E d \in store : d.id # id /\ d.key = k

\* A document with the fields of delta set ($set).
SetFields(d, delta) ==
    [f \in DOMAIN d |-> IF f \in DOMAIN delta THEN delta[f] ELSE d[f]]

\* Mutant: the insert replaces a document that holds the key (an upsert).
InsertDoc_Upsert(store, d) ==
    [ok |-> TRUE, store |-> {x \in store : x.key # d.key} \cup {d}]

\* doc.save() of a new document: insertOne under the unique index.
InsertDoc(store, d) ==
    IF DuplicateKey(store, d.id, d.key)
    THEN [ok |-> FALSE, store |-> store]
    ELSE [ok |-> TRUE, store |-> store \cup {d}]

\* Mutant: save() returns before the store has applied the update.
SaveDoc_NotAwaited(store, id, delta) == [ok |-> TRUE, store |-> store]

\* doc.save() of a loaded document: updateOne({_id}, {$set: the modified
\* paths}); it throws when the document is gone or the key is taken.
SaveDoc(store, id, delta) ==
    LET d == ById(store, id) IN
    IF d = NoDoc
    THEN [ok |-> FALSE, store |-> store]
    ELSE IF "key" \in DOMAIN delta /\ DuplicateKey(store, id, delta.key)
    THEN [ok |-> FALSE, store |-> store]
    ELSE [ok |-> TRUE, store |-> (store \ {d}) \cup {SetFields(d, delta)}]

\* Mutant: the filter compares a null expiresAt like a date.
SweepMatches_NullIsPast(d, cutoff) == d.expiresAt < cutoff /\ d.isActive

\* Mutant: the filter uses $lte.
SweepMatches_Inclusive(d, cutoff) ==
    d.expiresAt # NoDate /\ d.expiresAt <= cutoff /\ d.isActive

\* The filter { expiresAt: { $lt: cutoff }, isActive: true }: $lt matches no null.
SweepMatches(d, cutoff) ==
    d.expiresAt # NoDate /\ d.expiresAt < cutoff /\ d.isActive

\* Mutant: the filter lacks the expiresAt condition.
UpdateMany_AllActive(store, cutoff) ==
    {SetFields(d, [isActive |-> FALSE]) : d \in store}

\* Subscription.updateMany(filter, { isActive: false }).
UpdateMany(store, cutoff) ==
    {IF SweepMatches(d, cutoff) THEN SetFields(d, [isActive |-> FALSE]) ELSE d
       : d \in store}

\* Mutant: the comparison is turned around.
IsExpired_Flipped(d, t) == d.expiresAt # NoDate /\ d.expiresAt > t

\* Mutant: the expiry clock stops while the record is frozen.
IsExpired_FrozenPaused(d, t) ==
    ~d.isFrozen /\ d.expiresAt # NoDate /\ d.expiresAt < t

\* subscription.expiresAt && subscription.expiresAt < new Date()
IsExpired(d, t) == d.expiresAt # NoDate /\ d.expiresAt < t

\* ------------------------------------------------------------ responses
\* What the last step did: the handler, its key, the HTTP status it answered
\* (0: no response, a timer or the clock) and the number of save() calls
\* the store acknowledged.  stage is the history of the validated record
\* before the step (see hist).
Resp(op, k, status, writes, stage) ==
    [op |-> op, key |-> k, status |-> status, writes |-> writes,
     stage |-> stage]

\* No response: a step inside a handler, before it answers.
NoResp == Resp("none", "", 0, 0, "none")

\* hist[id]: "expired" once expiration (a validation, a sweep, a cleanup)
\* has deactivated the record and no admin mutation has touched it since;
\* "revived" once an admin has then set isActive back to true while
\* expiresAt is still in the past; "fresh" otherwise.
StageOf(store, h, k) ==
    LET d == FindOne({x \in store : x.key = k}) IN
    IF d = NoDoc THEN "none" ELSE h[d.id]

\* ------------------------------------------------------------ server.js
\* Mutant: the lookup filters by key alone.
ConnectFind_AnyState(store, k) == FindOne({d \in store : d.key = k})

\* GET /users/user/connect/:key, the lookup.
ConnectFind(store, k) == FindOne({d \in store : d.key = k /\ d.isActive})

\* Mutant: the expired branch forgets the deactivation and only touches
\* lastChecked.
ConnectWrite_TouchOnly(doc, t) == [lastChecked |-> t]

\* Mutant: the expired branch falls through to the lastChecked touch, so
\* its save() carries both fields.
ConnectWrite_FallThrough(doc, t) ==
    IF IsExpired(doc, t) THEN [isActive |-> FALSE, lastChecked |-> t]
    ELSE [lastChecked |-> t]

\* Mutant: save() writes the whole loaded document back, isActive as it
\* was read.
ConnectWrite_WholeDoc(doc, t) ==
    IF IsExpired(doc, t) THEN [isActive |-> FALSE]
    ELSE [isActive |-> doc.isActive, lastChecked |-> t]

\* The fields the handler modifies before its one save(), at clock t.
ConnectWrite(doc, t) ==
    IF IsExpired(doc, t) THEN [isActive |-> FALSE] ELSE [lastChecked |-> t]

ConnectStatus(doc, t) == IF IsExpired(doc, t) THEN 410 ELSE 200

\* Mutant: the handler answers without awaiting any save().
ConnectOutcome_NoSave(store, k, t) ==
    LET doc == ConnectFind(store, k) IN
    IF doc = NoDoc
    THEN [status |-> 404, store |-> store, writes |-> 0, id |-> 0]
    ELSE [status |-> ConnectStatus(doc, t), store |-> store, writes |-> 0,
          id |-> doc.id]

\* The whole handler run without interruption at clock t.
ConnectOutcome(store, k, t) ==
    LET doc == ConnectFind(store, k) IN
    IF doc = NoDoc
    THEN [status |-> 404, store |-> store, writes |-> 0, id |-> 0]
    ELSE LET saved == SaveDoc(store, doc.id, ConnectWrite(doc, t)) IN
         IF saved.ok
         THEN [status |-> ConnectStatus(doc, t), store |-> saved.store,
               writes |-> 1, id |-> doc.id]
         ELSE [status |-> 500, store |-> store, writes |-> 0, id |-> doc.id]

Connect(k) ==
    LET out == ConnectOutcome(subs, k, now) IN
    /\ subs' = out.store
    /\ hist' = IF out.status = 410 THEN [hist EXCEPT ![out.id] = "expired"]
               ELSE hist
    /\ last' = Resp("connect", k, out.status, out.writes,
                    StageOf(subs, hist, k))
    /\ UNCHANGED <<now, nextId, keys, nextKeyId, conn, sweeps, timer>>

\* Mutant: the test of durationDays is >= 0 without the truthiness test.
ExpiresAtFor_ZeroIsNow(dur, t) == IF dur >= 0 THEN t + dur ELSE NoDate

\* POST /subscriptions: the expiration date of a new key, for a whole number
\* of days (setDate adds calendar days).
ExpiresAtFor(dur, t) == IF dur # 0 /\ dur > 0 THEN t + dur ELSE NoDate

CreateOutcome(store, id, uid, k, dur, t) ==
    IF uid = 0 \/ k = ""
    THEN [status |-> 400, store |-> store]
    ELSE LET saved == InsertDoc(store,
                        NewSubscription(id, k, ExpiresAtFor(dur, t), t)) IN
         IF saved.ok THEN [status |-> 201, store |-> saved.store]
         ELSE [status |-> 409, store |-> store]

CreateSub(uid, k, dur) ==
    LET out == CreateOutcome(subs, nextId, uid, k, dur, now) IN
    /\ out.status = 201 => nextId <= MaxDocs
    /\ subs' = out.store
    /\ nextId' = IF out.status = 201 THEN nextId + 1 ELSE nextId
    /\ last' = Resp("create", k, out.status, 0, "none")
    /\ UNCHANGED <<now, hist, keys, nextKeyId, conn, sweeps, timer>>

\* PUT /subscriptions/:key: the fields of the body that are schema paths.
SchemaFields(updates) ==
    [f \in (DOMAIN updates) \cap SchemaPaths |-> updates[f]]

UpdateOutcome(store, k, updates) ==
    LET doc == FindOne({d \in store : d.key = k}) IN
    IF doc = NoDoc
    THEN [status |-> 404, store |-> store, id |-> 0]
    ELSE LET saved == SaveDoc(store, doc.id, SchemaFields(updates)) IN
         IF saved.ok THEN [status |-> 200, store |-> saved.store, id |-> doc.id]
         ELSE [status |-> 500, store |-> store, id |-> doc.id]

\* The history of a record an admin update has just written.
StageAfterUpdate(stage, d, updates, t) ==
    IF stage # "fresh" /\ DOMAIN updates = {"isActive"} /\ d.isActive
       /\ IsExpired(d, t)
    THEN "revived" ELSE "fresh"

UpdateSub(k, updates) ==
    LET out == UpdateOutcome(subs, k, updates) IN
    /\ subs' = out.store
    /\ hist' = IF out.status = 200
               THEN [hist EXCEPT ![out.id] =
                       StageAfterUpdate(hist[out.id], ById(out.store, out.id),
                                        updates, now)]
               ELSE hist
    /\ last' = Resp("update", k, out.status, 0, "none")
    /\ UNCHANGED <<now, nextId, keys, nextKeyId, conn, sweeps, timer>>

\* DELETE /subscriptions/:key
DeleteOutcome(store, k) ==
    LET doc == FindOne({d \in store : d.key = k}) IN
    IF doc = NoDoc THEN [status |-> 404, store |-> store, id |-> 0]
    ELSE [status |-> 200, store |-> store \ {doc}, id |-> doc.id]

DeleteSub(k) ==
    LET out == DeleteOutcome(subs, k) IN
    /\ subs' = out.store
    /\ hist' = IF out.status = 200 THEN [hist EXCEPT ![out.id] = "fresh"]
               ELSE hist
    /\ last' = Resp("delete", k, out.status, 0, "none")
    /\ UNCHANGED <<now, nextId, keys, nextKeyId, conn, sweeps, timer>>

\* The history after a bulk deactivation with the given cutoff.
StageAfterSweep(store, h, cutoff) ==
    [i \in DOMAIN h |->
       IF \E d \in store : d.id = i /\ SweepMatches(d, cutoff)
       THEN "expired" ELSE h[i]]

\* POST /subscriptions/cleanup
Cleanup ==
    /\ subs' = UpdateMany(subs, now)
    /\ hist' = StageAfterSweep(subs, hist, now)
    /\ last' = Resp("cleanup", "", 200, 0, "none")
    /\ UNCHANGED <<now, nextId, keys, nextKeyId, conn, sweeps, timer>>

\* setInterval(..., 60 * 60 * 1000): one tick whose updateMany is answered
\* before anything else happens.
SweepTick ==
    /\ timer = "armed"
    /\ subs' = UpdateMany(subs, now)
    /\ hist' = StageAfterSweep(subs, hist, now)
    /\ last' = Resp("sweep", "", 0, 0, "none")
    /\ UNCHANGED <<now, nextId, keys, nextKeyId, conn, sweeps, timer>>

\* A store call of a handler (or of the timer callback) is rejected: the
\* catch block answers 500 (the timer callback only logs; 500 stands for the
\* logged error), nothing is persisted.
StoreFault(op) ==
    /\ last' = Resp(op, "", 500, 0, "none")
    /\ UNCHANGED <<now, subs, nextId, hist, keys, nextKeyId, conn, sweeps, timer>>

\* The clock advances.
Tick ==
    /\ now < MaxNow
    /\ now' = now + 1
    /\ last' = Resp("tick", "", 0, 0, "none")
    /\ UNCHANGED <<subs, nextId, hist, keys, nextKeyId, conn, sweeps, timer>>

\* Request bodies of PUT /subscriptions/:key: activate or deactivate, set
\* or clear expiresAt, renew, and a field the schema does not have.
LifecycleUpdates ==
    {[isActive |-> b] : b \in BOOLEAN}
      \cup {[expiresAt |-> e] : e \in {NoDate} \cup Dates}
      \cup {[isActive |-> TRUE, expiresAt |-> e] : e \in Dates}
      \cup {[note |-> 1]}

\* Request bodies that name the key or createdAt.
KeyUpdates ==
    {[key |-> k] : k \in Keys}
      \cup {[createdAt |-> 0], [isActive |-> TRUE]}

\* Request bodies that set or clear the expiration date alone.
ExtendUpdates == {[expiresAt |-> e] : e \in {NoDate} \cup Dates}

\* Request bodies that freeze or unfreeze.
FreezeUpdates == {[isFrozen |-> b] : b \in BOOLEAN}

FaultOps == {"connect", "create", "update", "delete", "cleanup", "sweep"}

\* ------------------------------------------------- server.js, interleaved
\* Every await of a handler is a point where other requests and the timer
\* callback run: the validation handler is its findOne, the continuation
\* that checks the expiration date, and its save().
IdleConn == [pc |-> "idle", key |-> "", doc |-> NoDoc, write |-> <<>>,
             status |-> 0]

\* The request arrives and the store answers its findOne.
ConnFind(s, k) ==
    /\ conn[s].pc = "idle"
    /\ conn' = [conn EXCEPT ![s] = [pc |-> "found", key |-> k,
                                    doc |-> ConnectFind(subs, k),
                                    write |-> <<>>, status |-> 0]]
    /\ last' = NoResp
    /\ UNCHANGED <<now, subs, nextId, hist, keys, nextKeyId, sweeps, timer>>

\* The continuation: 404 without a document, else the expiration check at
\* the current clock and the call of save().
ConnCheck(s) ==
    /\ conn[s].pc = "found"
    /\ IF conn[s].doc = NoDoc
       THEN /\ conn' = [conn EXCEPT ![s] = IdleConn]
            /\ last' = Resp("connect", conn[s].key, 404, 0,
                            StageOf(subs, hist, conn[s].key))
       ELSE /\ conn' = [conn EXCEPT ![s].pc = "saving",
                                    ![s].write = ConnectWrite(conn[s].doc, now),
                                    ![s].status = ConnectStatus(conn[s].doc, now)]
            /\ last' = NoResp
    /\ UNCHANGED <<now, subs, nextId, hist, keys, nextKeyId, sweeps, timer>>

\* The store answers the save(): the response, or 500 when it throws.
ConnSave(s) ==
    LET saved == SaveDoc(subs, conn[s].doc.id, conn[s].write) IN
    /\ conn[s].pc = "saving"
    /\ subs' = saved.store
    /\ hist' = IF saved.ok /\ conn[s].status = 410
               THEN [hist EXCEPT ![conn[s].doc.id] = "expired"] ELSE hist
    /\ last' = IF saved.ok
               THEN Resp("connect", conn[s].key, conn[s].status, 1,
                         StageOf(subs, hist, conn[s].key))
               ELSE Resp("connect", conn[s].key, 500, 0,
                         StageOf(subs, hist, conn[s].key))
    /\ conn' = [conn EXCEPT ![s] = IdleConn]
    /\ UNCHANGED <<now, nextId, keys, nextKeyId, sweeps, timer>>

\* The timer fires: the callback takes new Date() and calls updateMany.  No
\* flag or lock records that an earlier tick still awaits its answer.
\* timer is "armed" from setInterval on: the program never calls
\* clearInterval, and the callback catches what its store call throws.
SweepStart ==
    /\ timer = "armed"
    /\ Len(sweeps) < MaxSweeps
    /\ sweeps' = Append(sweeps, now)
    /\ last' = NoResp
    /\ UNCHANGED <<now, subs, nextId, hist, keys, nextKeyId, conn, timer>>

Without(q, i) == [j \in 1..(Len(q) - 1) |-> IF j < i THEN q[j] ELSE q[j + 1]]

\* The store applies the bulk update of the i-th pending tick.
SweepDone(i) ==
    /\ i \in 1..Len(sweeps)
    /\ subs' = UpdateMany(subs, sweeps[i])
    /\ hist' = StageAfterSweep(subs, hist, sweeps[i])
    /\ sweeps' = Without(sweeps, i)
    /\ last' = Resp("sweep", "", 0, 0, "none")
    /\ UNCHANGED <<now, nextId, keys, nextKeyId, conn, timer>>

\* Mutant: the callback has no try/catch; the rejection of updateMany is
\* unhandled and ends the process, and the timer with it.
SweepFail_Unhandled(i) ==
    /\ i \in 1..Len(sweeps)
    /\ sweeps' = <<>>
    /\ timer' = "stopped"
    /\ last' = Resp("sweep", "", 500, 0, "none")
    /\ UNCHANGED <<now, subs, nextId, hist, keys, nextKeyId, conn>>

\* The store rejects it: the callback logs the error.
SweepFail(i) ==
    /\ i \in 1..Len(sweeps)
    /\ sweeps' = Without(sweeps, i)
    /\ last' = Resp("sweep", "", 500, 0, "none")
    /\ UNCHANGED <<now, subs, nextId, hist, keys, nextKeyId, conn, timer>>

\* ------------------------------------------------- the admin console
\* new Key({...}): uuidv4() gives every document a key of its own, here
\* its id.
NewKey(id, e, perm, t) ==
    [id |-> id, key |-> id, createdAt |-> t, expiresAt |-> e,
     isActive |-> TRUE, isPermanent |-> perm]

NoKey == [id |-> 0, key |-> 0, createdAt |-> NoDate, expiresAt |-> NoDate,
          isActive |-> FALSE, isPermanent |-> FALSE]

KeyById(store, id) ==
    IF \E d \in store : d.id = id THEN CHOOSE d \in store : d.id = id
    ELSE NoKey

\* req.body.isPermanent: absent, the checkbox's "on", another truthy string.
PermanentInputs == {"", "on", "yes"}

\* POST /keys: expiresAt is null when isPermanent is truthy, else
\* new Date(expiresAt), which no document accepts when it is invalid.
CreateKey(e, perm) ==
    LET ok == perm # "" \/ e # NoDate
        d == NewKey(nextKeyId, IF perm # "" THEN NoDate ELSE e, perm = "on", now)
    IN
    /\ ok => nextKeyId <= MaxDocs
    /\ keys' = IF ok THEN keys \cup {d} ELSE keys
    /\ nextKeyId' = IF ok THEN nextKeyId + 1 ELSE nextKeyId
    /\ last' = Resp("createKey", ToString(nextKeyId), IF ok THEN 302 ELSE 500, 0, "none")
    /\ UNCHANGED <<now, subs, nextId, hist, conn, sweeps, timer>>

\* DELETE /keys/:id: findByIdAndDelete, whose result the handler ignores.
DeleteKey(id) ==
    /\ keys' = keys \ {KeyById(keys, id)}
    /\ last' = Resp("deleteKey", ToString(id), 200, 0, "none")
    /\ UNCHANGED <<now, subs, nextId, hist, nextKeyId, conn, sweeps, timer>>

\* POST /keys/:id/toggle: key.isActive = !key.isActive; a null key throws.
ToggleKey(id) ==
    LET d == KeyById(keys, id) IN
    /\ keys' = IF d = NoKey THEN keys
               ELSE (keys \ {d}) \cup {[d EXCEPT !.isActive = ~d.isActive]}
    /\ last' = Resp("toggleKey", ToString(id), IF d = NoKey THEN 500 ELSE 200, 0, "none")
    /\ UNCHANGED <<now, subs, nextId, hist, nextKeyId, conn, sweeps, timer>>

\* The filter { isPermanent: false, expiresAt: { $lt: new Date() } }.
KeySweepMatches(d, cutoff) ==
    ~d.isPermanent /\ d.expiresAt # NoDate /\ d.expiresAt < cutoff

\* The console's hourly task: Key.deleteMany(filter).
KeySweep ==
    /\ keys' = {d \in keys : ~KeySweepMatches(d, now)}
    /\ last' = Resp("keySweep", "", 0, 0, "none")
    /\ UNCHANGED <<now, subs, nextId, hist, nextKeyId, conn, sweeps, timer>>

\* ------------------------------------------------- specifications
Init ==
    /\ now = 0
    /\ subs = {}
    /\ nextId = 1
    /\ hist = [i \in 1..MaxDocs |-> "fresh"]
    /\ last = NoResp
    /\ keys = {}
    /\ nextKeyId = 1
    /\ conn = [s \in Slots |-> IdleConn]
    /\ sweeps = <<>>
    /\ timer = "armed"

\* The steps of the API server when every handler runs to its response
\* before the next request is served, for requests on the keys KS with the
\* PUT bodies US and the durations DS, and store failures in the handlers FS.
Serve(KS, US, DS, FS) ==
    \/ Tick
    \/ \E k \in KS : Connect(k)
    \/ \E uid \in UserIds, k \in KS \cup {""}, dur \in DS :
         CreateSub(uid, k, dur)
    \/ \E k \in KS, u \in US : UpdateSub(k, u)
    \/ \E k \in KS : DeleteSub(k)
    \/ Cleanup
    \/ SweepTick
    \/ \E op \in FS : StoreFault(op)

\* The lifecycle of one key under every kind of request.
Next == Serve({"K1"}, LifecycleUpdates, Durations, FaultOps)

Spec == Init /\ [][Next]_vars

\* Two keys under the requests that create, rename and delete records.
NextKeys == Serve(Keys, KeyUpdates, {0, 1}, {"create"})

SpecKeys == Init /\ [][NextKeys]_vars

\* Validations of one key, ticks of the timer and the key's creation and
\* deletion interleaved; the key is issued once.
NextConc ==
    \/ Tick
    \/ \E dur \in Durations : nextId = 1 /\ CreateSub(7, "K1", dur)
    \/ DeleteSub("K1")
    \/ \E s \in Slots : ConnFind(s, "K1")
    \/ \E s \in Slots : ConnCheck(s)
    \/ \E s \in Slots : ConnSave(s)
    \/ SweepStart
    \/ \E i \in 1..MaxSweeps : SweepDone(i)
    \/ \E i \in 1..MaxSweeps : SweepFail(i)

SpecConc == Init /\ [][NextConc]_vars

\* The automated paths alone, on two keys: validations, ticks of the timer
\* and on-demand cleanups interleaved, with no admin update and no delete.
\* K1 is issued first, for one day, then K2, permanent or for two days, both
\* on day 0; validation s serves the s-th key.
AutoKey(s) == IF s = 1 THEN "K1" ELSE "K2"

NextAuto ==
    \/ Tick
    \/ now = 0 /\ nextId = 1 /\ CreateSub(7, "K1", 1)
    \/ \E dur \in {0, 2} : now = 0 /\ nextId = 2 /\ CreateSub(7, "K2", dur)
    \/ \E s \in Slots : ConnFind(s, AutoKey(s))
    \/ \E s \in Slots : ConnCheck(s)
    \/ \E s \in Slots : ConnSave(s)
    \/ SweepStart
    \/ \E i \in 1..MaxSweeps : SweepDone(i)
    \/ Cleanup

SpecAuto == Init /\ [][NextAuto]_vars

\* The timer alone with one key: setInterval fires the callback again and
\* again (weak fairness of SweepStart), and the store answers or rejects
\* every updateMany (weak fairness of the answers).
NextTimer ==
    \/ Tick
    \/ \E dur \in {0, 1} : nextId = 1 /\ CreateSub(7, "K1", dur)
    \/ SweepStart
    \/ \E i \in 1..MaxSweeps : SweepDone(i)
    \/ \E i \in 1..MaxSweeps : SweepFail(i)

SpecTimer ==
    /\ Init
    /\ [][NextTimer]_vars
    /\ WF_vars(SweepStart)
    /\ WF_vars(\E i \in 1..MaxSweeps : SweepDone(i) \/ SweepFail(i))

\* The lifecycle of one key that an admin freezes and unfreezes.
NextFreeze == Serve({"K1"}, FreezeUpdates, {0, 1}, {"update"})

SpecFreeze == Init /\ [][NextFreeze]_vars

\* Validations of one key, their awaits interleaved with admin updates of
\* its expiration date; the key is issued once, for one day.
NextRace ==
    \/ Tick
    \/ nextId = 1 /\ CreateSub(7, "K1", 1)
    \/ \E s \in Slots : ConnFind(s, "K1")
    \/ \E s \in Slots : ConnCheck(s)
    \/ \E s \in Slots : ConnSave(s)
    \/ \E u \in ExtendUpdates : UpdateSub("K1", u)

SpecRace == Init /\ [][NextRace]_vars

\* The admin console.
NextConsole ==
    \/ Tick
    \/ \E e \in {NoDate} \cup Dates, perm \in PermanentInputs : CreateKey(e, perm)
    \/ \E id \in 1..MaxDocs : DeleteKey(id)
    \/ \E id \in 1..MaxDocs : ToggleKey(id)
    \/ KeySweep

SpecConsole == Init /\ [][NextConsole]_vars

\* ------------------------------------------------- claims
\* C1 as stated: the next validation of a key that expiration deactivated
\* and an admin then set active again, expiresAt still in the past, returns
\* Found and leaves isActive = true.
C1_RevivedKeyIsFound ==
    (last.op = "connect" /\ last.stage = "revived")
      => /\ last.status = 200
         /\ \E d \in subs : d.key = last.key /\ d.isActive

\* C1 amended: that validation returns Expired (410), performs the one
\* deactivating write and leaves the record inactive, expiresAt unchanged.
C1_RevivedKeyExpiresAgain ==
    (last.op = "connect" /\ last.stage = "revived")
      => /\ last.status = 410
         /\ last.writes = 1
         /\ \E d \in subs : /\ d.key = last.key
                            /\ ~d.isActive
                            /\ d.expiresAt # NoDate
                            /\ d.expiresAt < now
                            /\ hist[d.id] = "expired"

C1_Witness ==
    last.op = "connect" /\ last.stage = "revived" /\ last.status = 410

\* C2: a record leaves a collection only by an explicit admin delete; no
\* validation, sweep tick or cleanup removes one.
C2_OnlyDeleteRemoves ==
    [][/\ (\E d \in subs : \A e \in subs' : e.id # d.id) => last'.op = "delete"
       /\ (\E d \in keys : \A e \in keys' : e.id # d.id) => last'.op = "deleteKey"
      ]_vars

\* C3: no validation, sweep tick or cleanup, at any clock value, deactivates
\* an active record whose expiresAt is absent.
C3_PermanentNeverExpires ==
    [][\A d \in subs :
         (/\ d.expiresAt = NoDate
          /\ d.isActive
          /\ last'.op \in {"connect", "sweep", "cleanup"})
           => \E e \in subs' : e.id = d.id /\ e.isActive
      ]_vars

\* A permanent record, validated after its creation day, is still active
\* after a sweep tick on the last day.
C3_Witness ==
    /\ last.op = "sweep"
    /\ now = MaxNow
    /\ \E d \in subs : /\ d.expiresAt = NoDate
                       /\ d.isActive
                       /\ d.lastChecked > d.createdAt

\* C4: for a record whose expiresAt is in the past, the check of a
\* validation that found it decides the deactivation, and the save() of that
\* validation and the bulk update of a sweep tick (its cutoff after
\* expiresAt) each leave exactly that record with isActive = false: from an
\* active record either one alone deactivates it, and on a record the other
\* has already deactivated it changes nothing, in whatever order the steps
\* of the two interleave.
C4_ExpirationIdempotent ==
    [][\A d \in subs : (d.expiresAt # NoDate /\ d.expiresAt < now) =>
         /\ \A s \in Slots :
              (conn[s].pc = "found" /\ conn[s].doc.id = d.id /\ ConnCheck(s))
                => (conn'[s].status = 410
                    /\ conn'[s].write = [isActive |-> FALSE])
         /\ \A s \in Slots :
              (/\ conn[s].pc = "saving"
               /\ conn[s].doc.id = d.id
               /\ conn[s].status = 410
               /\ ConnSave(s))
                => ById(subs', d.id) = [d EXCEPT !.isActive = FALSE]
         /\ \A i \in 1..MaxSweeps :
              (SweepDone(i) /\ sweeps[i] > d.expiresAt)
                => ById(subs', d.id) = [d EXCEPT !.isActive = FALSE]
      ]_vars

\* A validation read the record active, something else deactivated it by
\* expiration, and then the validation's save() was answered Expired.
C4_Witness ==
    /\ last.op = "connect"
    /\ last.status = 410
    /\ last.stage = "expired"
    /\ \E d \in subs : d.key = last.key /\ ~d.isActive

\* C5: a validation of a key without a record returns NotFound; the
\* validation of an active record whose expiresAt has passed returns
\* Expired; and once expiration has deactivated a record, every validation
\* returns NotFound or Expired until an admin mutation touches the record.
C5_ExpiredStaysExpired ==
    [][\A k \in Keys :
         (last'.op = "connect" /\ last'.key = k) =>
           LET d == FindOne({x \in subs : x.key = k}) IN
           /\ d = NoDoc => last'.status = 404
           /\ (d # NoDoc /\ d.isActive /\ d.expiresAt # NoDate /\ d.expiresAt < now)
                => (last'.status = 410 /\ hist'[d.id] = "expired")
           /\ (d # NoDoc /\ hist[d.id] = "expired")
                => (last'.status \in {404, 410} /\ hist'[d.id] = "expired")
      ]_vars

\* A validation answered NotFound for a record that expiration had
\* deactivated on an earlier day.
C5_Witness ==
    /\ last.op = "connect"
    /\ last.stage = "expired"
    /\ last.status = 404
    /\ \E d \in subs : d.key = last.key /\ d.expiresAt + 1 < now

\* C6: issuing a key (required fields present) whose key string belongs to
\* an existing record answers 409, inserts nothing and leaves the existing
\* record as it was.
C6_DuplicateKeyConflict ==
    [][\A uid \in UserIds \ {0}, k \in Keys, dur \in {0, 1} :
         (/\ last'.op = "create"
          /\ \E d \in subs : d.key = k
          /\ CreateSub(uid, k, dur))
           => (last'.status = 409 /\ subs' = subs /\ nextId' = nextId)
      ]_vars

\* A 409 for a key whose record was created on an earlier day.
C6_Witness ==
    /\ last.op = "create"
    /\ last.status = 409
    /\ \E d \in subs : d.key = last.key /\ d.createdAt < now

\* C7: no two records of the collection have the same key, nor the same id.
C7_KeysAreUnique ==
    \A d \in subs : \A e \in subs : (d.key = e.key \/ d.id = e.id) => d = e

\* Two records, and an update that would have given one the other's key
\* was refused.
C7_Witness ==
    /\ Cardinality(subs) = 2
    /\ last.op = "update"
    /\ last.status = 500

\* C8: no step changes the key or the createdAt of a record.
C8_KeyAndCreatedAtImmutable ==
    [][\A d \in subs : \A e \in subs' :
         e.id = d.id => (e.key = d.key /\ e.createdAt = d.createdAt)
      ]_vars

\* C9: a validation that answers Found or Expired has performed exactly
\* one write, of one field of the record it found: isActive = false for
\* Expired, lastChecked = now for Found.
C9_ExactlyOneWrite ==
    [][\A k \in Keys :
         (last'.op = "connect" /\ last'.key = k /\ last'.status \in {200, 410})
           => LET d == FindOne({x \in subs : x.key = k /\ x.isActive}) IN
              /\ d # NoDoc
              /\ last'.writes = 1
              /\ subs' = (subs \ {d}) \cup
                   {IF last'.status = 410
                    THEN [d EXCEPT !.isActive = FALSE]
                    ELSE [d EXCEPT !.lastChecked = now]}
      ]_vars

\* A Found on a later day than the last check, and an Expired.
C9_Witness ==
    /\ last.op = "connect"
    /\ last.writes = 1
    /\ \/ last.status = 410
       \/ /\ last.status = 200
          /\ \E d \in subs : /\ d.key = last.key
                             /\ d.lastChecked = now
                             /\ d.createdAt < now

\* C10: at most one scheduled sweep is in progress.
C10_SweepsNeverOverlap == Len(sweeps) <= 1

\* C11: with validations and sweep ticks interleaved in any way, the bulk
\* update of a tick deactivates exactly the records that are active with
\* expiresAt before its cutoff and changes no other field of any record; the
\* save() of a validation that found its key active and not expired sets
\* lastChecked to the time of that validation's check and changes nothing
\* else of what is stored, so a record still not expired stays active.
C11_NoLostUpdate ==
    [][/\ \A i \in 1..MaxSweeps :
            SweepDone(i) =>
              subs' = {IF d.isActive /\ d.expiresAt # NoDate
                          /\ d.expiresAt < sweeps[i]
                       THEN [d EXCEPT !.isActive = FALSE] ELSE d : d \in subs}
       /\ \A s \in Slots :
            (conn[s].pc = "saving" /\ conn[s].status = 200 /\ ConnSave(s)
               /\ last'.status = 200)
              => \E d \in subs :
                   /\ d.id = conn[s].doc.id
                   /\ subs' = (subs \ {d}) \cup
                        {[d EXCEPT !.lastChecked = conn[s].write.lastChecked]}
                   /\ (d.expiresAt = NoDate \/ d.expiresAt >= now)
                        => ById(subs', d.id).isActive
      ]_vars

\* A validation of one key was answered Found, its lastChecked stored, with
\* a tick in flight that was started before the validation wrote, while the
\* other key's record has been deactivated.
C11_Witness ==
    /\ last.op = "connect"
    /\ last.status = 200
    /\ Len(sweeps) > 0
    /\ \E d \in subs, e \in subs :
         /\ d.key = last.key
         /\ d.isActive
         /\ d.lastChecked = now
         /\ d.createdAt < now
         /\ e.key # d.key
         /\ ~e.isActive

\* C12: when a validation answers Expired, the stored record already has
\* isActive = false; as long as no admin mutation touches the record it
\* stays inactive, every findOne of a validation that reads after that
\* returns no document, and such a validation answers NotFound.
C12_ExpiredAfterPersist ==
    [][/\ \A d \in subs : hist[d.id] = "expired" => ~d.isActive
       /\ (last'.op = "connect" /\ last'.status = 410)
            => \E d \in subs' : /\ d.key = last'.key
                                 /\ ~d.isActive
                                 /\ hist'[d.id] = "expired"
       /\ \A s \in Slots, k \in Keys :
            (/\ \E d \in subs : d.key = k /\ hist[d.id] = "expired"
             /\ ConnFind(s, k))
              => conn'[s].doc = NoDoc
       /\ \A s \in Slots :
            (conn[s].pc = "found" /\ conn[s].doc = NoDoc /\ ConnCheck(s))
              => (last'.status = 404 /\ subs' = subs)
      ]_vars

\* A validation that read after the deactivation was answered NotFound
\* while another one, which had read the record active, is still in flight.
C12_Witness ==
    /\ last.op = "connect"
    /\ last.status = 404
    /\ last.stage = "expired"
    /\ \E d \in subs : d.key = last.key /\ ~d.isActive
    /\ \E s \in Slots : conn[s].pc = "saving" /\ conn[s].doc.isActive

\* C13: in any interleaving of validations, ticks of the timer and
\* on-demand cleanups, with no admin mutation, no step changes isActive of
\* a record from false to true.
C13_InactiveStaysInactive ==
    [][\A d \in subs : \A e \in subs' :
         (e.id = d.id /\ ~d.isActive) => ~e.isActive
      ]_vars

\* A validation that had read its record active and not expired was
\* answered Found after a sweep or a cleanup had deactivated the record:
\* its lastChecked is stored and the record is still inactive.
C13_Witness ==
    /\ last.op = "connect"
    /\ last.status = 200
    /\ last.stage = "expired"
    /\ \E d \in subs : /\ d.key = last.key
                       /\ ~d.isActive
                       /\ d.lastChecked > d.createdAt

\* C14: a tick whose updateMany is rejected leaves the store and the pending
\* ticks of other firings as they were and the timer armed; the timer is
\* armed in every state; and whatever ticks failed or succeeded before,
\* the timer fires again.
C14_FailedTickIsSkipped ==
    /\ [][(last'.op = "sweep" /\ last'.status = 500)
            => (subs' = subs /\ hist' = hist /\ timer' = "armed"
                /\ Len(sweeps') = Len(sweeps) - 1)]_vars
    /\ [](timer = "armed")
    /\ []<><<SweepStart>>_vars

\* A tick has just failed while an active record was past its expiresAt:
\* the record is still active, and the timer is armed.
C14_Witness ==
    /\ last.op = "sweep"
    /\ last.status = 500
    /\ timer = "armed"
    /\ \E d \in subs : d.isActive /\ d.expiresAt # NoDate /\ d.expiresAt < now

\* C15: a request that issues a key and is answered 201 has inserted
\* exactly one record, with the request's key, createdAt = now, isActive =
\* true, isFrozen = false, and expiresAt = now + durationDays when
\* durationDays is positive, absent when it is missing, zero or negative;
\* a validation of a key issued with durationDays = 0, run right after,
\* answers Found.
C15_IssueSetsExpiry ==
    [][\A uid \in UserIds \ {0}, k \in Keys, dur \in Durations :
         (last'.op = "create" /\ last'.status = 201 /\ CreateSub(uid, k, dur))
           => \E d \in subs' :
                /\ d \notin subs
                /\ subs' = subs \cup {d}
                /\ d.key = k
                /\ d.createdAt = now
                /\ d.isActive
                /\ ~d.isFrozen
                /\ dur > 0 => d.expiresAt = now + dur
                /\ dur <= 0 => d.expiresAt = NoDate
                /\ dur = 0 => ConnectOutcome(subs', k, now).status = 200
      ]_vars

\* A key issued without expiration on a later day than day 0 was validated
\* on the day of its creation and Found.
C15_Witness ==
    /\ last.op = "connect"
    /\ last.status = 200
    /\ now > 0
    /\ \E d \in subs : /\ d.key = last.key
                       /\ d.createdAt = now
                       /\ d.expiresAt = NoDate
                       /\ d.isActive
                       /\ ~d.isFrozen

\* C16: a delete of a key (API) or of an id (console) that has a record
\* removes exactly that record and answers success; a delete of a key or
\* id without a record answers NotFound (404) and changes nothing.
C16_DeleteMissingIsNotFound ==
    [][/\ (last'.op = "delete" /\ last'.status # 500) =>
            IF \E d \in subs : d.key = last'.key
            THEN /\ last'.status = 200
                 /\ subs' = {d \in subs : d.key # last'.key}
            ELSE /\ last'.status = 404
                 /\ subs' = subs
       /\ last'.op = "deleteKey" =>
            IF \E d \in keys : ToString(d.id) = last'.key
            THEN /\ last'.status = 200
                 /\ keys' = {d \in keys : ToString(d.id) # last'.key}
            ELSE /\ last'.status = 404
                 /\ keys' = keys
      ]_vars

\* C17: a validation the store serves answers NotFound (404) exactly when
\* no record has the key or the record with the key has isActive = false,
\* expired or not; a NotFound validation performs no write and leaves the
\* store, lastChecked included, as it was.
C17_NotFoundWritesNothing ==
    [][\A k \in Keys :
         (last'.op = "connect" /\ last'.key = k) =>
           LET d == FindOne({x \in subs : x.key = k}) IN
           /\ (d = NoDoc \/ ~d.isActive) <=> last'.status = 404
           /\ last'.status = 404 => (last'.writes = 0 /\ subs' = subs)
      ]_vars

\* A validation answered NotFound for a record an admin deactivated and
\* whose expiresAt has not passed; its lastChecked is older than now.
C17_Witness ==
    /\ last.op = "connect"
    /\ last.status = 404
    /\ last.stage = "fresh"
    /\ \E d \in subs : /\ d.key = last.key
                       /\ ~d.isActive
                       /\ d.expiresAt >= now
                       /\ d.lastChecked < now

\* C18: in every state and for every record, a validation of the record's
\* key and a bulk deactivation (tick or cleanup), each run alone at the
\* current clock, leave the same isActive: false exactly when the record
\* was active with expiresAt present and before now (at now = expiresAt
\* both leave it active), and neither activates an inactive record; and an
\* on-demand cleanup and a scheduled tick write the same store.
C18_LazyEqualsEager ==
    [][/\ \A d \in subs :
            LET lazy == ById(ConnectOutcome(subs, d.key, now).store, d.id)
                eager == ById(UpdateMany(subs, now), d.id)
                due == d.isActive /\ d.expiresAt # NoDate /\ d.expiresAt < now
            IN /\ lazy.isActive = eager.isActive
               /\ eager.isActive <=> (d.isActive /\ ~due)
       /\ ((last'.op = "cleanup" /\ last'.status = 200)
             \/ (last'.op = "sweep" /\ last'.status = 0))
            => subs' = {IF d.isActive /\ d.expiresAt # NoDate
                           /\ d.expiresAt < now
                        THEN [d EXCEPT !.isActive = FALSE] ELSE d : d \in subs}
      ]_vars

\* A cleanup ran on the very day a record expires, after the record had
\* been validated on that day, and the record is still active.
C18_Witness ==
    /\ last.op = "cleanup"
    /\ last.status = 200
    /\ \E d \in subs : /\ d.isActive
                       /\ d.expiresAt = now
                       /\ d.lastChecked = now
                       /\ d.createdAt < now

\* C19: whenever the save() of a validation persists isActive = false and
\* the validation answers Expired, the expiresAt the store holds for the
\* record at that moment is present and in the past.
C19_NoStaleDeactivation ==
    [][\A s \in Slots :
         (conn[s].pc = "saving" /\ ConnSave(s) /\ last'.status = 410)
           => LET d == ById(subs, conn[s].doc.id) IN
              d.expiresAt # NoDate /\ d.expiresAt < now
      ]_vars

\* C20: an update whose body is isFrozen alone changes isFrozen of the
\* record and nothing else; a validation of an active record answers
\* Expired and deactivates it when its expiresAt has passed, Found
\* otherwise, and a tick or a cleanup deactivates every active record whose
\* expiresAt has passed, frozen or not.
C20_FreezeIsOnlyAFlag ==
    [][/\ \A k \in Keys, b \in BOOLEAN :
            (/\ last'.op = "update"
             /\ last'.status = 200
             /\ UpdateSub(k, [isFrozen |-> b]))
              => \E d \in subs :
                   /\ d.key = k
                   /\ subs' = (subs \ {d}) \cup {[d EXCEPT !.isFrozen = b]}
       /\ \A d \in subs :
            (d.isActive /\ last'.op = "connect" /\ last'.key = d.key) =>
              IF d.expiresAt # NoDate /\ d.expiresAt < now
              THEN /\ last'.status = 410
                   /\ subs' = (subs \ {d}) \cup {[d EXCEPT !.isActive = FALSE]}
              ELSE /\ last'.status = 200
                   /\ ById(subs', d.id).isActive
                   /\ ById(subs', d.id).isFrozen = d.isFrozen
       /\ \A d \in subs :
            (/\ d.isActive
             /\ d.expiresAt # NoDate
             /\ d.expiresAt < now
             /\ last'.op \in {"sweep", "cleanup"}
             /\ last'.status # 500)
              => [d EXCEPT !.isActive = FALSE] \in subs'
      ]_vars

\* A validation of a frozen record whose expiresAt had passed was answered
\* Expired: the record is inactive and still frozen.
C20_Witness ==
    /\ last.op = "connect"
    /\ last.status = 410
    /\ \E d \in subs : d.key = last.key /\ d.isFrozen /\ ~d.isActive

====
